---- MODULE Spec2Model ----
(***************************************************************************)
(* Temporal point-cloud interpolation core of vvtk (src/src/lib/points.rs). *)
(* A `Points` value (the current frame) owns its points, two delta vectors  *)
(* and a reference snapshot.  The operations are the public methods         *)
(* average_points_recovery (Policy 1), closest_with_ratio_average_points_   *)
(* recovery (Policy 2), frame_delta and mark_mapped_points.                 *)
(*                                                                          *)
(* Numbers: coordinates and weights are f32 in the source.  The model uses  *)
(* integers that f32 represents exactly, drawn from a point universe in     *)
(* which every pairwise Euclidean distance is an integer (corners and       *)
(* centre of a 12 x 16 rectangle), so costs and means are computed exactly. *)
(* Non-finite floats (NaN, infinity) are outside the model.                 *)
(***************************************************************************)
EXTENDS Integers, Sequences, FiniteSets, TLC

\* ---------------------------------------------------------------- bounds
\* Longest frame (current or reference) drawn as an input.
MaxLen == 2
\* Number of public calls made on one Points value in a run.
MaxOps == 2
\* Largest point cloud handed to normal estimation.
MaxCloud == 4

\* ------------------------------------------------------ program constants
\* get_nearests(kd_tree, 400): the number of candidates asked of the tree.
K == 400
\* f32::MAX, the initial running minimum of get_closest.  The model value is
\* the largest integer of the checker; every cost of the model is far below
\* it, as every finite cost of the source is below f32::MAX.
F32_MAX == 2147483647
\* mapping: u16 -- the counter's modulus.
U16_MODULUS == 65536

\* ------------------------------------------------------------ point model
Black == <<0, 0, 0>>
Tint  == <<30, 40, 0>>
\* PointColor::new(0, 255, 0): the colour the marker writes.
Green == <<0, 255, 0>>

\* Point { point_coord, point_color, mapping, index }
Point(coord, color, mapping, index) ==
    [point_coord |-> coord, point_color |-> color, mapping |-> mapping, index |-> index]

\* Point::new_default(): all-zero point, mapping 0, index 0.
new_default == Point(<<0, 0, 0>>, <<0, 0, 0>>, 0, 0)

\* The (coord, colour) values the loader hands over for the current frame ...
CurValues == { <<<<0, 0, 0>>, Black>>, <<<<6, 8, 0>>, Tint>> }
\* ... and for the reference frame.
RefValues == { <<<<12, 0, 0>>, Tint>>, <<<<12, 16, 0>>, Black>> }

\* The (w_coord, w_color, w_map) triples the caller passes to Policy 2.
Weights == { <<1, 0, 0>>, <<1, 1, 0>>, <<1, 0, 1000>>, <<0, 0, 0>> }

\* A frame as the loader builds it: mapping 0 and index == position
\* (0-based, as in the source; sequences of the model are 1-based).
FramesOf(values, n) ==
    { [i \in 1..n |-> Point(f[i][1], f[i][2], 0, i - 1)] : f \in [1..n -> values] }

Frames(values) == UNION { FramesOf(values, n) : n \in 0..MaxLen }

\* ------------------------------------------------------------ arithmetic
\* Exact square root; defined on perfect squares only.
Sqrt(n) == CHOOSE r \in 0..n : r * r = n

SqDist(a, b) ==
    (a[1] - b[1]) * (a[1] - b[1]) + (a[2] - b[2]) * (a[2] - b[2])
        + (a[3] - b[3]) * (a[3] - b[3])

\* PointCoordinate::get_coord_delta / PointColor::get_color_delta:
\* Euclidean norm of the componentwise difference.
coord_delta(a, b) == Sqrt(SqDist(a, b))
color_delta(a, b) == Sqrt(SqDist(a, b))

\* PointCoordinate::get_average: componentwise arithmetic mean.
coord_average(a, b) == [i \in 1..3 |-> (a[i] + b[i]) \div 2]
\* PointColor::get_average: componentwise mean truncated back to 8 bits.
color_average(a, b) == [i \in 1..3 |-> ((a[i] + b[i]) \div 2) % 256]

Sub3(a, b) == [i \in 1..3 |-> a[i] - b[i]]

RECURSIVE SumSeq(_)
SumSeq(s) == IF s = <<>> THEN 0 ELSE Head(s) + SumSeq(Tail(s))

Mappings(frame) == [i \in 1..Len(frame) |-> frame[i].mapping]

\* --------------------------------------------------------------- k-d tree
\* Points::to_kdtree: KdTree::build_by_ordered_float over the frame's points.
\* The tree holds clones of the points.  The order in which it visits points
\* of equal distance depends on how the build arranged them: `layout` is that
\* arrangement, a permutation of the positions of the frame.
Layouts(n) == { f \in [1..n -> 1..n] : \A a, b \in 1..n : a # b => f[a] # f[b] }

to_kdtree(frame, layout) == [i \in 1..Len(frame) |-> frame[layout[i]]]

\* Position of item i of the tree among the items sorted by ascending
\* distance to q (items of equal distance keep the tree's order).
Rank(kd_tree, q, i) ==
    1 + Cardinality({ j \in 1..Len(kd_tree) :
            \/ SqDist(kd_tree[j].point_coord, q.point_coord)
                 < SqDist(kd_tree[i].point_coord, q.point_coord)
            \/ /\ SqDist(kd_tree[j].point_coord, q.point_coord)
                    = SqDist(kd_tree[i].point_coord, q.point_coord)
               /\ j < i })

\* kd_tree.nearests(q, quantity): the min(quantity, size) nearest items in
\* ascending distance order.
nearests(kd_tree, q, quantity) ==
    LET n == IF quantity < Len(kd_tree) THEN quantity ELSE Len(kd_tree) IN
    [r \in 1..n |-> kd_tree[CHOOSE i \in 1..Len(kd_tree) : Rank(kd_tree, q, i) = r]]

\* kd_tree.nearest(q): Option of the nearest item; <<>> is None, <<x>> is Some(x).
nearest(kd_tree, q) ==
    IF Len(kd_tree) = 0 THEN <<>> ELSE << nearests(kd_tree, q, 1)[1] >>

\* ----------------------------------------------------------------- Point
\* inc_mapping with the update lost: the counter of a clone is incremented,
\* the snapshot stays as it was.
inc_mapping_lost(reference_frame, idx) == reference_frame

\* reference_frame[idx].mapping += 1 on a u16 (idx is 0-based).
inc_mapping(reference_frame, idx) ==
    [reference_frame EXCEPT ![idx + 1].mapping = (@ + 1) % U16_MODULUS]

\* get_nearest without the `mapping += 1` on the snapshot.
get_nearest_uncounted(self, kd_tree, reference_frame) ==
    LET found == nearest(kd_tree, self) IN
    IF found = <<>>
    THEN [panicked |-> TRUE, point |-> new_default, reference_frame |-> reference_frame]
    ELSE [panicked |-> found[1].index >= Len(reference_frame), point |-> found[1],
          reference_frame |-> reference_frame]

\* Point::get_nearest
get_nearest(self, kd_tree, reference_frame) ==
    LET found == nearest(kd_tree, self) IN
    IF found = <<>>
    THEN [panicked |-> TRUE, point |-> new_default, reference_frame |-> reference_frame]
    ELSE LET nearest_point == found[1] IN
         IF nearest_point.index >= Len(reference_frame)
         THEN [panicked |-> TRUE, point |-> nearest_point,
               reference_frame |-> reference_frame]
         ELSE [panicked |-> FALSE, point |-> nearest_point,
               reference_frame |-> inc_mapping(reference_frame, nearest_point.index)]

\* Point::get_nearests
get_nearests(self, kd_tree, quantity) == nearests(kd_tree, self, quantity)

\* Point::get_average
get_average(self, another_point) ==
    Point(coord_average(self.point_coord, another_point.point_coord),
          color_average(self.point_color, another_point.point_color),
          0, self.index)

\* Point::get_difference
get_difference(self, another_point, penalize_coor, penalize_col, another_point_mapping, penalize_mapped) ==
    coord_delta(self.point_coord, another_point.point_coord) * penalize_coor
      + color_delta(self.point_color, another_point.point_color) * penalize_col
      + another_point_mapping * penalize_mapped

\* `cur <= min` in place of `cur < min`.
is_new_min_or_equal(cur, min) == cur <= min

\* `cur < min` of get_closest.
is_new_min(cur, min) == cur < min

\* The body of the `for mut point in points.data` loop of get_closest, from
\* candidate i on.  st = [min, result, reference_frame, panicked, evaluated];
\* `evaluated` records, per candidate, the counter and the cost the loop read.
RECURSIVE get_closest_loop(_, _, _, _, _)
get_closest_loop(self, points, w, i, st) ==
    IF i > Len(points) \/ st.panicked THEN st
    ELSE LET point == points[i] IN
         IF point.index >= Len(st.reference_frame)
         THEN [st EXCEPT !.panicked = TRUE]
         ELSE LET map == st.reference_frame[point.index + 1].mapping
                  cur == get_difference(self, point, w[1], w[2], map, w[3])
                  seen == Append(st.evaluated, [map |-> map, cur |-> cur])
              IN IF is_new_min(cur, st.min)
                 THEN get_closest_loop(self, points, w, i + 1,
                        [st EXCEPT !.min = cur,
                                   !.reference_frame = inc_mapping(@, point.index),
                                   !.result = point,
                                   !.evaluated = seen])
                 ELSE get_closest_loop(self, points, w, i + 1,
                        [st EXCEPT !.evaluated = seen])

\* get_closest without the increment that follows the loop.
get_closest_counted_once(self, points, w, reference_frame) ==
    LET st == get_closest_loop(self, points, w, 1,
                 [min |-> F32_MAX, result |-> new_default,
                  reference_frame |-> reference_frame,
                  panicked |-> FALSE, evaluated |-> <<>>])
    IN IF st.panicked \/ st.result.index >= Len(st.reference_frame)
       THEN [st EXCEPT !.panicked = TRUE]
       ELSE st

\* Point::get_closest
get_closest(self, points, w, reference_frame) ==
    LET st == get_closest_loop(self, points, w, 1,
                 [min |-> F32_MAX, result |-> new_default,
                  reference_frame |-> reference_frame,
                  panicked |-> FALSE, evaluated |-> <<>>])
    IN IF st.panicked \/ st.result.index >= Len(st.reference_frame)
       THEN [st EXCEPT !.panicked = TRUE]
       ELSE [st EXCEPT !.reference_frame = inc_mapping(@, st.result.index)]

\* Point::get_average_closest_from_kdtree with get_average_closest inlined:
\* the K nearest candidates, the closest of them, and the average with it.
get_average_closest_from_kdtree(self, kd_tree, w, reference_frame) ==
    LET points == get_nearests(self, kd_tree, K)
        closest == get_closest(self, points, w, reference_frame)
    IN [panicked |-> closest.panicked,
        point |-> get_average(self, closest.result),
        reference_frame |-> closest.reference_frame,
        scan |-> [p |-> self, candidates |-> points, before |-> reference_frame,
                  after |-> closest.reference_frame, result |-> closest.result,
                  evaluated |-> closest.evaluated]]

\* ---------------------------------------------------------------- Points
\* Points { data, delta_pos_vector, delta_colours, reference_frame } is the
\* record `self` below; Points::of(data) has empty deltas and reference.

\* mark_mapped_points recolouring every point, whatever its counter.
mark_mapped_points_all(self) ==
    LET rf == self.reference_frame IN
    [self |-> [self EXCEPT !.reference_frame =
                  [i \in 1..Len(rf) |-> [rf[i] EXCEPT !.point_color = Green]]],
     stdout |-> << Cardinality({ i \in 1..Len(rf) : rf[i].mapping # 0 }), Len(rf) >>]

\* mark_mapped_points with the branches of `if point.mapping == 0` swapped.
mark_mapped_points_inverted(self) ==
    LET rf == self.reference_frame IN
    [self |-> [self EXCEPT !.reference_frame =
                  [i \in 1..Len(rf) |->
                      IF rf[i].mapping # 0
                      THEN [rf[i] EXCEPT !.point_color = Green]
                      ELSE rf[i]]],
     stdout |-> << Cardinality({ i \in 1..Len(rf) : rf[i].mapping = 0 }), Len(rf) >>]

\* Points::mark_mapped_points; `stdout` is the pair printed by println!
\* ("mapped points: {}; total points: {}").
mark_mapped_points(self) ==
    LET rf == self.reference_frame IN
    [self |-> [self EXCEPT !.reference_frame =
                  [i \in 1..Len(rf) |->
                      IF rf[i].mapping = 0
                      THEN [rf[i] EXCEPT !.point_color = Green]
                      ELSE rf[i]]],
     stdout |-> << Cardinality({ i \in 1..Len(rf) : rf[i].mapping # 0 }), Len(rf) >>]

\* frame_delta subtracting the other way round (prev - next).
frame_delta_swapped(self, prev) ==
    LET next == self.data
        n == IF Len(prev) < Len(next) THEN Len(prev) ELSE Len(next)
        pos_deltas == [pos \in 1..n |->
                         Sub3(prev[pos].point_coord, next[pos].point_coord)]
        col_deltas == [pos \in 1..n |->
                         Sub3(prev[pos].point_color, next[pos].point_color)]
    IN IF Len(prev) > Len(next)
       THEN [panicked |-> TRUE,
             self |-> [self EXCEPT !.delta_pos_vector = @ \o pos_deltas]]
       ELSE [panicked |-> FALSE,
             self |-> [self EXCEPT !.delta_pos_vector = @ \o pos_deltas,
                                   !.delta_colours = @ \o col_deltas]]

\* frame_delta without its second loop: no colour delta is pushed.
frame_delta_no_colours(self, prev) ==
    LET next == self.data
        n == IF Len(prev) < Len(next) THEN Len(prev) ELSE Len(next)
        pos_deltas == [pos \in 1..n |->
                         Sub3(next[pos].point_coord, prev[pos].point_coord)]
    IN [panicked |-> Len(prev) > Len(next),
        self |-> [self EXCEPT !.delta_pos_vector = @ \o pos_deltas]]

\* Points::frame_delta: next = self.data, prev = the argument.  Both loops
\* run over prev and index next at the same position; next[pos] with
\* pos >= next.len() panics, after the first loop has pushed next.len()
\* position deltas.
frame_delta(self, prev) ==
    LET next == self.data
        n == IF Len(prev) < Len(next) THEN Len(prev) ELSE Len(next)
        pos_deltas == [pos \in 1..n |->
                         Sub3(next[pos].point_coord, prev[pos].point_coord)]
        col_deltas == [pos \in 1..n |->
                         Sub3(next[pos].point_color, prev[pos].point_color)]
    IN IF Len(prev) > Len(next)
       THEN [panicked |-> TRUE,
             self |-> [self EXCEPT !.delta_pos_vector = @ \o pos_deltas]]
       ELSE [panicked |-> FALSE,
             self |-> [self EXCEPT !.delta_pos_vector = @ \o pos_deltas,
                                   !.delta_colours = @ \o col_deltas]]

\* The `.map(|point| point.get_average(&point.get_nearest(..)))` iteration of
\* average_points_recovery over the current points, from position i on.
\* acc = [panicked, point_data, counterparts, reference_frame].
RECURSIVE nearest_map(_, _, _, _)
nearest_map(data, kd_tree, i, acc) ==
    IF i > Len(data) \/ acc.panicked THEN acc
    ELSE LET point == data[i]
             got == get_nearest(point, kd_tree, acc.reference_frame)
         IN IF got.panicked
            THEN [acc EXCEPT !.panicked = TRUE]
            ELSE nearest_map(data, kd_tree, i + 1,
                   [acc EXCEPT !.point_data = Append(@, get_average(point, got.point)),
                               !.counterparts = Append(@, got.point),
                               !.reference_frame = got.reference_frame])

\* The `.map(|point| point.get_average_closest_from_kdtree(..))` iteration of
\* closest_with_ratio_average_points_recovery, from position i on.
\* acc = [panicked, point_data, counterparts, reference_frame, scans].
RECURSIVE closest_map(_, _, _, _, _)
closest_map(data, kd_tree, w, i, acc) ==
    IF i > Len(data) \/ acc.panicked THEN acc
    ELSE LET point == data[i]
             got == get_average_closest_from_kdtree(point, kd_tree, w,
                                                    acc.reference_frame)
         IN IF got.panicked
            THEN [acc EXCEPT !.panicked = TRUE]
            ELSE closest_map(data, kd_tree, w, i + 1,
                   [acc EXCEPT !.point_data = Append(@, got.point),
                               !.counterparts = Append(@, got.scan.result),
                               !.reference_frame = got.reference_frame,
                               !.scans = Append(@, got.scan)])

\* The tail shared by both recovery operations: frame_delta(point_data),
\* mark_mapped_points(), and the returned pair
\* (point_data, Points::of(self.reference_frame.clone())).
\* `matched` is the reference snapshot as the marker receives it.
finish_recovery(self, acc) ==
    IF acc.panicked
    THEN [panicked |-> TRUE,
          self |-> [self EXCEPT !.reference_frame = acc.reference_frame],
          ret |-> <<>>, stdout |-> <<>>, counterparts |-> acc.counterparts,
          scans |-> acc.scans, matched |-> acc.reference_frame]
    ELSE LET delta == frame_delta([self EXCEPT !.reference_frame = acc.reference_frame],
                                  acc.point_data)
             marked == mark_mapped_points(delta.self)
         IN IF delta.panicked
            THEN [panicked |-> TRUE, self |-> delta.self, ret |-> <<>>,
                  stdout |-> <<>>, counterparts |-> acc.counterparts,
                  scans |-> acc.scans, matched |-> acc.reference_frame]
            ELSE [panicked |-> FALSE, self |-> marked.self,
                  ret |-> << acc.point_data, marked.self.reference_frame >>,
                  stdout |-> marked.stdout, counterparts |-> acc.counterparts,
                  scans |-> acc.scans, matched |-> acc.reference_frame]

\* Points::average_points_recovery (Policy 1); kd_tree is points.to_kdtree().
average_points_recovery(self, points, kd_tree) ==
    finish_recovery(self,
        nearest_map(self.data, kd_tree, 1,
            [panicked |-> FALSE, point_data |-> <<>>, counterparts |-> <<>>,
             reference_frame |-> points, scans |-> <<>>]))

\* Points::closest_with_ratio_average_points_recovery (Policy 2);
\* w = <<penalize_coor, penalize_col, penalize_mapped>>.
closest_with_ratio_average_points_recovery(self, points, kd_tree, w) ==
    finish_recovery(self,
        closest_map(self.data, kd_tree, w, 1,
            [panicked |-> FALSE, point_data |-> <<>>, counterparts |-> <<>>,
             reference_frame |-> points, scans |-> <<>>]))

\* ------------------------------------------------------ normal estimation
\* src/src/pipeline/subcommands/normal_estimation.rs.  A PointCloud is
\* [number_of_points, points]; a point is its <<x, y, z>> (the colour fields
\* are not read).  Coordinates are f32 and the radius f64 in the source; the
\* model uses integers, which both represent exactly.

\* Largest r with r * r <= n.
RECURSIVE FloorSqrt(_, _)
FloorSqrt(n, r) == IF (r + 1) * (r + 1) > n THEN r ELSE FloorSqrt(n, r + 1)

\* distance(p1, p2): the differences are widened to f64, squared, summed and
\* the square root taken.  The root of an integer n is given as its integer
\* part and whether it is exactly that integer.
distance(p1, p2) ==
    LET dx == p1[1] - p2[1]
        dy == p1[2] - p2[2]
        dz == p1[3] - p2[3]
        n  == dx * dx + dy * dy + dz * dz
        whole == FloorSqrt(n, 0)
    IN [whole |-> whole, exact |-> whole * whole = n]

\* `dist <= radius` for an integer radius.
dist_le(dist, radius) ==
    \/ dist.whole < radius
    \/ dist.whole = radius /\ dist.exact

\* is_neighbor with `dist < radius` in place of `dist <= radius`.
is_neighbor_strict(pc, i, j, radius) ==
    /\ i # j
    /\ distance(pc.points[i + 1], pc.points[j + 1]).whole < radius

\* The two tests of the inner loop of select_neighboring_points:
\* `if i != j` and `if dist <= radius` (i, j are 0-based).
is_neighbor(pc, i, j, radius) ==
    /\ i # j
    /\ dist_le(distance(pc.points[i + 1], pc.points[j + 1]), radius)

\* The inner loop `for j in 0..pc.number_of_points` from j on;
\* point_neighbors is the list pushed so far.
RECURSIVE point_neighbors_loop(_, _, _, _, _)
point_neighbors_loop(pc, radius, i, j, point_neighbors) ==
    IF j >= pc.number_of_points THEN point_neighbors
    ELSE point_neighbors_loop(pc, radius, i, j + 1,
            IF is_neighbor(pc, i, j, radius)
            THEN Append(point_neighbors, j)
            ELSE point_neighbors)

\* select_neighboring_points: vec![Vec::new(); number_of_points] with entry i
\* replaced by the list the inner loop builds for point i.
select_neighboring_points(pc, radius) ==
    [k \in 1..pc.number_of_points |->
        point_neighbors_loop(pc, radius, k - 1, 0, <<>>)]

\* The coordinates the point clouds of the model are drawn from ...
CloudValues == { <<0, 0, 0>>, <<1, 1, 1>>, <<2, 2, 2>>, <<3, 0, 0>> }
\* ... and the radii (--radius).
Radii == { -1, 0, 2, 3 }

\* PointCloud { number_of_points: points.len(), points }
PointCloud(pts) == [number_of_points |-> Len(pts), points |-> pts]

Clouds == { PointCloud(pts) : pts \in UNION { [1..n -> CloudValues] : n \in 0..MaxCloud } }

\* ----------------------------------------------------------------- state
VARIABLES
    data,              \* self.data: the current frame's points
    delta_pos_vector,  \* self.delta_pos_vector
    delta_colours,     \* self.delta_colours
    reference_frame,   \* self.reference_frame: the reference snapshot
    points,            \* the other frame the caller holds and passes in
    layout,            \* how the k-d tree build arranges that frame
    weights,           \* the penalize_* arguments the caller passes
    stdout,            \* the last line mark_mapped_points printed, <<>> if none
    outcome,           \* "none" before any call, then "ok" or "panic"
    call,              \* the last call: its name, the fields before it, its
                       \* return value and what its iteration recorded
    ops,               \* number of calls made
    pc,                \* the point cloud handed to normal estimation
    radius,            \* args.radius
    neighbors,         \* what select_neighboring_points returned
    selected           \* whether select_neighboring_points has returned

points_vars == << data, delta_pos_vector, delta_colours, reference_frame, points,
                  layout, weights, stdout, outcome, call, ops >>

ne_vars == << pc, radius, neighbors, selected >>

vars == << points_vars, ne_vars >>

Self == [data |-> data, delta_pos_vector |-> delta_pos_vector,
         delta_colours |-> delta_colours, reference_frame |-> reference_frame]

NoCall == [name |-> "none", pre |-> <<>>, ret |-> <<>>, counterparts |-> <<>>,
           scans |-> <<>>, matched |-> <<>>]

\* No point cloud is under normal estimation.
NoCloud ==
    /\ pc = PointCloud(<<>>)
    /\ radius = 0
    /\ neighbors = <<>>
    /\ selected = FALSE

\* Points::of(data) for the current frame; the other frame, the weights and
\* the arrangement the tree build gives that frame are left open.
Init ==
    /\ data \in Frames(CurValues)
    /\ delta_pos_vector = <<>>
    /\ delta_colours = <<>>
    /\ reference_frame = <<>>
    /\ points \in Frames(RefValues)
    /\ layout \in Layouts(Len(points))
    /\ weights \in Weights
    /\ stdout = <<>>
    /\ outcome = "none"
    /\ call = NoCall
    /\ ops = 0
    /\ NoCloud

\* A panic unwinds out of the program: no call follows it.
CanCall == outcome # "panic" /\ ops < MaxOps

Store(self) ==
    /\ data' = self.data
    /\ delta_pos_vector' = self.delta_pos_vector
    /\ delta_colours' = self.delta_colours
    /\ reference_frame' = self.reference_frame

Recovered(name, r) ==
    /\ Store(r.self)
    /\ stdout' = IF r.panicked THEN stdout ELSE r.stdout
    /\ outcome' = IF r.panicked THEN "panic" ELSE "ok"
    /\ call' = [name |-> name, pre |-> Self, ret |-> r.ret,
                counterparts |-> r.counterparts, scans |-> r.scans,
                matched |-> r.matched]
    /\ ops' = ops + 1
    /\ UNCHANGED << points, layout, weights, ne_vars >>

AveragePointsRecovery ==
    /\ CanCall
    /\ \E r \in { average_points_recovery(Self, points, to_kdtree(points, layout)) } :
          Recovered("average_points_recovery", r)

ClosestWithRatioAveragePointsRecovery ==
    /\ CanCall
    /\ \E r \in { closest_with_ratio_average_points_recovery(
                     Self, points, to_kdtree(points, layout), weights) } :
          Recovered("closest_with_ratio_average_points_recovery", r)

\* frame_delta called by the caller itself with the other frame ("a simple
\* delta", before any interpolation function is called or after).
FrameDelta ==
    /\ CanCall
    /\ LET r == frame_delta(Self, points) IN
          /\ Store(r.self)
          /\ outcome' = IF r.panicked THEN "panic" ELSE "ok"
          /\ call' = [NoCall EXCEPT !.name = "frame_delta", !.pre = Self]
          /\ ops' = ops + 1
          /\ UNCHANGED << points, layout, weights, stdout, ne_vars >>

\* mark_mapped_points called by the caller itself.
MarkMappedPoints ==
    /\ CanCall
    /\ LET r == mark_mapped_points(Self) IN
          /\ Store(r.self)
          /\ stdout' = r.stdout
          /\ outcome' = "ok"
          /\ call' = [NoCall EXCEPT !.name = "mark_mapped_points", !.pre = Self,
                                    !.matched = reference_frame]
          /\ ops' = ops + 1
          /\ UNCHANGED << points, layout, weights, ne_vars >>

Next ==
    \/ AveragePointsRecovery
    \/ ClosestWithRatioAveragePointsRecovery
    \/ FrameDelta
    \/ MarkMappedPoints

Spec == Init /\ [][Next]_vars

\* Normal estimation of one point cloud: no Points value is in play.
InitNormalEstimation ==
    /\ data = <<>>
    /\ delta_pos_vector = <<>>
    /\ delta_colours = <<>>
    /\ reference_frame = <<>>
    /\ points = <<>>
    /\ layout = <<>>
    /\ weights = <<0, 0, 0>>
    /\ stdout = <<>>
    /\ outcome = "none"
    /\ call = NoCall
    /\ ops = 0
    /\ pc \in Clouds
    /\ radius \in Radii
    /\ neighbors = <<>>
    /\ selected = FALSE

\* perform_normal_estimation: `let neighbors = select_neighboring_points(pc, radius)`.
SelectNeighboringPoints ==
    /\ ~selected
    /\ neighbors' = select_neighboring_points(pc, radius)
    /\ selected' = TRUE
    /\ UNCHANGED << pc, radius, points_vars >>

NextNormalEstimation == SelectNeighboringPoints

SpecNormalEstimation == InitNormalEstimation /\ [][NextNormalEstimation]_vars

\* ================================================================ claims
Recoveries == { "average_points_recovery",
                "closest_with_ratio_average_points_recovery" }

\* The pair the last recovery returned.
Output   == call.ret[1]
Snapshot == call.ret[2]

\* c is the point of the reference frame at its own index.
IsReferencePoint(c) == c.index < Len(points) /\ points[c.index + 1] = c

\* ---------------------------------------------------------------- C1
\* C1: after Policy 1 over a non-empty reference (index == position, counters
\* 0) the operation returns, every recorded counterpart is a reference point
\* no farther from its current point than any other reference point, for
\* every j snapshot[j].mapping is the number of current points whose
\* counterpart is j, and the counters sum to the current frame length.
C1_MappingConservation ==
    (call.name = "average_points_recovery" /\ Len(points) > 0) =>
        /\ outcome = "ok"
        /\ Len(call.counterparts) = Len(data)
        /\ \A k \in 1..Len(data) :
              /\ IsReferencePoint(call.counterparts[k])
              /\ \A j \in 1..Len(points) :
                    SqDist(data[k].point_coord, call.counterparts[k].point_coord)
                      <= SqDist(data[k].point_coord, points[j].point_coord)
        /\ Len(Snapshot) = Len(points)
        /\ \A j \in 1..Len(Snapshot) :
              Snapshot[j].mapping =
                 Cardinality({ k \in 1..Len(data) : call.counterparts[k].index = j - 1 })
        /\ SumSeq(Mappings(Snapshot)) = Len(data)

\* Two current points share their nearest reference point while another
\* reference point is nobody's nearest.
C1_Witness ==
    /\ call.name = "average_points_recovery"
    /\ outcome = "ok"
    /\ \E j, i \in 1..Len(Snapshot) : Snapshot[j].mapping = 2 /\ Snapshot[i].mapping = 0

\* ---------------------------------------------------------------- C2
\* Cost of candidate i of scan s as the claim states it, with the counter
\* the loop read when it evaluated that candidate.
ClaimedCost(s, i) ==
    weights[1] * coord_delta(s.p.point_coord, s.candidates[i].point_coord)
      + weights[2] * color_delta(s.p.point_color, s.candidates[i].point_color)
      + weights[3] * s.evaluated[i].map

\* Candidate i became the running best: its cost is strictly below the cost
\* of every candidate scanned before it.
BecameBest(s, i) == \A h \in 1..(i - 1) : ClaimedCost(s, i) < ClaimedCost(s, h)

\* The counter of candidate i at the moment it is evaluated: its value
\* before the scan plus the increments the scan has made to it so far.
CounterWhenEvaluated(s, i) ==
    s.before[s.candidates[i].index + 1].mapping
      + Cardinality({ h \in 1..(i - 1) :
            s.candidates[h].index = s.candidates[i].index /\ BecameBest(s, h) })

\* The candidates are the K nearest reference points in ascending distance.
IsKNearest(s) ==
    /\ Len(s.candidates) = (IF K < Len(points) THEN K ELSE Len(points))
    /\ \A i \in 1..Len(s.candidates) : IsReferencePoint(s.candidates[i])
    /\ \A i, h \in 1..Len(s.candidates) :
          /\ (i # h => s.candidates[i].index # s.candidates[h].index)
          /\ (i < h => SqDist(s.p.point_coord, s.candidates[i].point_coord)
                         <= SqDist(s.p.point_coord, s.candidates[h].point_coord))
    /\ \A j \in 1..Len(points) :
          (\A i \in 1..Len(s.candidates) : s.candidates[i].index # j - 1) =>
              \A i \in 1..Len(s.candidates) :
                  SqDist(s.p.point_coord, s.candidates[i].point_coord)
                    <= SqDist(s.p.point_coord, points[j].point_coord)

\* C2: in Policy 2 the counterpart of every current point is, among the K
\* nearest candidates scanned in tree order, the first one whose cost
\* w_coord*coordDist + w_color*colorDist + w_map*m is minimal, m being the
\* candidate's counter read when that candidate is evaluated.
C2_ChosenMinimisesCost ==
    (call.name = "closest_with_ratio_average_points_recovery" /\ outcome = "ok") =>
        /\ Len(call.scans) = Len(data)
        /\ \A k \in 1..Len(call.scans) :
              LET s == call.scans[k] IN
              /\ s.p = data[k]
              /\ IsKNearest(s)
              /\ Len(s.evaluated) = Len(s.candidates)
              /\ \A i \in 1..Len(s.candidates) :
                    /\ s.evaluated[i].map = CounterWhenEvaluated(s, i)
                    /\ s.evaluated[i].cur = ClaimedCost(s, i)
              /\ \E b \in 1..Len(s.candidates) :
                    /\ s.result = s.candidates[b]
                    /\ \A i \in 1..Len(s.candidates) : ClaimedCost(s, b) <= ClaimedCost(s, i)
                    /\ \A i \in 1..(b - 1) : ClaimedCost(s, b) < ClaimedCost(s, i)

\* A scan in which a later candidate ties with the chosen one, and a scan in
\* which the second candidate is chosen because the first carries a counter.
C2_Witness ==
    /\ call.name = "closest_with_ratio_average_points_recovery"
    /\ outcome = "ok"
    /\ \E k \in 1..Len(call.scans) :
          LET s == call.scans[k] IN
          /\ Len(s.candidates) = 2
          /\ s.result = s.candidates[1]
          /\ ClaimedCost(s, 1) = ClaimedCost(s, 2)
    /\ \E k \in 1..Len(call.scans) :
          LET s == call.scans[k] IN
          /\ Len(s.candidates) = 2
          /\ s.result = s.candidates[2]
          /\ s.evaluated[1].map > 0

\* ---------------------------------------------------------------- C3
\* What the scan s adds to the counter of reference index idx according to
\* the claim: 1 for each time a candidate with that index became the running
\* best, and 1 more if the chosen candidate has that index.
ClaimedIncrement(s, idx) ==
    Cardinality({ i \in 1..Len(s.candidates) :
        s.candidates[i].index = idx /\ BecameBest(s, i) })
      + (IF s.result.index = idx THEN 1 ELSE 0)

\* C3: in Policy 2 the processing of one current point starts from the
\* snapshot the previous point left, adds to each counter 1 per time that
\* candidate became the running best plus 1 for the chosen candidate, and
\* changes nothing else; the chosen candidate's counter grows by exactly 2.
C3_CounterIncrements ==
    (call.name = "closest_with_ratio_average_points_recovery" /\ outcome = "ok") =>
        /\ call.matched =
              (IF call.scans = <<>> THEN points ELSE call.scans[Len(call.scans)].after)
        /\ \A k \in 1..Len(call.scans) :
              LET s == call.scans[k] IN
              /\ s.before = (IF k = 1 THEN points ELSE call.scans[k - 1].after)
              /\ Len(s.after) = Len(s.before)
              /\ \A j \in 1..Len(s.before) :
                    s.after[j] = [s.before[j] EXCEPT
                                     !.mapping = @ + ClaimedIncrement(s, j - 1)]
              /\ s.after[s.result.index + 1].mapping
                    = s.before[s.result.index + 1].mapping + 2

\* A scan that credits a provisional best once and the chosen candidate twice.
C3_Witness ==
    /\ call.name = "closest_with_ratio_average_points_recovery"
    /\ outcome = "ok"
    /\ \E k \in 1..Len(call.scans) :
          LET s == call.scans[k] IN
          \E j \in 1..Len(s.before) :
             /\ s.result.index # j - 1
             /\ s.after[j].mapping = s.before[j].mapping + 1
             /\ s.after[s.result.index + 1].mapping
                   = s.before[s.result.index + 1].mapping + 2

\* ---------------------------------------------------------------- C4
\* C4: after Policy 2 every snapshot counter is >= 0 and their sum lies
\* between the current frame length and (current frame length) * (K + 1).
C4_MappingSumBounds ==
    (call.name = "closest_with_ratio_average_points_recovery" /\ outcome = "ok") =>
        /\ \A j \in 1..Len(Snapshot) : Snapshot[j].mapping >= 0
        /\ SumSeq(Mappings(Snapshot)) >= Len(data)
        /\ SumSeq(Mappings(Snapshot)) <= Len(data) * (K + 1)

\* Two current points matched with provisional increments on the way.
C4_Witness ==
    /\ call.name = "closest_with_ratio_average_points_recovery"
    /\ outcome = "ok"
    /\ Len(data) = 2
    /\ SumSeq(Mappings(Snapshot)) > 2 * Len(data)

\* ---------------------------------------------------------------- C5
\* The last call was a recovery that returned, on a frame whose delta
\* sequences were empty.
RecoveredFromEmptyDeltas ==
    /\ call.name \in Recoveries
    /\ outcome = "ok"
    /\ call.pre.delta_pos_vector = <<>>
    /\ call.pre.delta_colours = <<>>

C7_LengthMismatchSurfaced ==
    (call.name = "frame_delta" /\ Len(points) # Len(call.pre.data)) =>
        /\ outcome = "LengthMismatch"
        /\ delta_pos_vector = call.pre.delta_pos_vector
        /\ delta_colours = call.pre.delta_colours

\* ---------------------------------------------------------------- C8
\* C8: a recovery of a non-empty current frame against an empty reference
\* ends in an EmptyReference error surfaced to the caller, and a recovery of
\* an empty current frame returns an empty output and appends no delta.
C8_EmptyReferenceSurfaced ==
    call.name \in Recoveries =>
        /\ (Len(call.pre.data) > 0 /\ Len(points) = 0) => outcome = "EmptyReference"
        /\ Len(call.pre.data) = 0 =>
              /\ outcome = "ok"
              /\ Output = <<>>
              /\ delta_pos_vector = call.pre.delta_pos_vector
              /\ delta_colours = call.pre.delta_colours

\* ---------------------------------------------------------------- C9
\* C9 as stated: a recovery leaves the current points unchanged, and the
\* returned snapshot differs from the reference frame passed in by the
\* mapping counters alone.
C9_OnlyCountersDiffer ==
    (call.name \in Recoveries /\ outcome = "ok") =>
        /\ data = call.pre.data
        /\ Len(Snapshot) = Len(points)
        /\ \A j \in 1..Len(Snapshot) :
              Snapshot[j] = [points[j] EXCEPT !.mapping = Snapshot[j].mapping]

\* C9 amended: a recovery leaves the current points unchanged, and the
\* returned snapshot has the length, coordinates and indices of the
\* reference frame passed in; its colours are those of the reference frame
\* for points with a non-zero counter and (0, 255, 0) for points whose
\* counter is 0.
C9_CountersAndUnmappedColours ==
    (call.name \in Recoveries /\ outcome = "ok") =>
        /\ data = call.pre.data
        /\ Snapshot = reference_frame
        /\ Len(Snapshot) = Len(points)
        /\ \A j \in 1..Len(Snapshot) :
              /\ Snapshot[j].point_coord = points[j].point_coord
              /\ Snapshot[j].index = points[j].index
              /\ Snapshot[j].mapping # 0 => Snapshot[j].point_color = points[j].point_color
              /\ Snapshot[j].mapping = 0 => Snapshot[j].point_color = Green

\* A returned snapshot with a matched point and a recoloured unmatched one.
C9_Witness ==
    /\ call.name \in Recoveries
    /\ outcome = "ok"
    /\ \E i, j \in 1..Len(Snapshot) :
          /\ Snapshot[i].mapping # 0
          /\ Snapshot[j].mapping = 0
          /\ Snapshot[j].point_color # points[j].point_color

\* --------------------------------------------------------------- C10
\* C10: after the marker has run (called directly or at the end of a
\* recovery) on the snapshot `matched`, every point with counter 0 is
\* (0, 255, 0), every other point keeps its colour, counters, coordinates,
\* indices and length are those of `matched`, the printed counts are the
\* number of points with a non-zero counter and the snapshot length; a
\* direct call leaves the current points and the deltas as they were.
C10_MarkerEffect ==
    ((call.name \in Recoveries /\ outcome = "ok") \/ call.name = "mark_mapped_points") =>
        /\ Len(reference_frame) = Len(call.matched)
        /\ \A j \in 1..Len(reference_frame) :
              /\ reference_frame[j].mapping = call.matched[j].mapping
              /\ reference_frame[j].point_coord = call.matched[j].point_coord
              /\ reference_frame[j].index = call.matched[j].index
              /\ reference_frame[j].mapping = 0 => reference_frame[j].point_color = Green
              /\ reference_frame[j].mapping # 0 =>
                    reference_frame[j].point_color = call.matched[j].point_color
        /\ stdout = << Cardinality({ j \in 1..Len(reference_frame) :
                                       reference_frame[j].mapping # 0 }),
                       Len(reference_frame) >>
        /\ data = call.pre.data
        /\ call.name = "mark_mapped_points" =>
              /\ call.matched = call.pre.reference_frame
              /\ delta_pos_vector = call.pre.delta_pos_vector
              /\ delta_colours = call.pre.delta_colours

\* The marker called directly on the snapshot a recovery left, with matched
\* and unmatched points and deltas in place.
C10_Witness ==
    /\ call.name = "mark_mapped_points"
    /\ delta_pos_vector # <<>>
    /\ stdout = <<1, 2>>
    /\ \E i, j \in 1..Len(reference_frame) :
          /\ reference_frame[i].mapping # 0
          /\ reference_frame[i].point_color # Green
          /\ reference_frame[j].mapping = 0
          /\ reference_frame[j].point_color = Green

\* --------------------------------------------------------------- C11
\* Points i and j of the cloud (0-based) are within the radius: the squared
\* Euclidean distance is at most the squared radius, and the radius is not
\* negative.
WithinRadius(i, j) ==
    /\ radius >= 0
    /\ SqDist(pc.points[i + 1], pc.points[j + 1]) <= radius * radius

\* C11: select_neighboring_points returns one list per point of the cloud;
\* neighbors[i] holds exactly the indices j # i whose Euclidean distance to
\* point i is <= radius, each once and in ascending order; the relation is
\* symmetric and no point is its own neighbour.
C11_NeighborsWithinRadius ==
    selected =>
        /\ Len(neighbors) = Len(pc.points)
        /\ \A i \in 0..(Len(neighbors) - 1) :
              LET list == neighbors[i + 1] IN
              /\ \A j \in 0..(Len(pc.points) - 1) :
                    (\E a \in 1..Len(list) : list[a] = j) <=> (j # i /\ WithinRadius(i, j))
              /\ \A a, b \in 1..Len(list) : a < b => list[a] < list[b]
              /\ \A a \in 1..Len(list) :
                    /\ list[a] # i
                    /\ \E b \in 1..Len(neighbors[list[a] + 1]) :
                          neighbors[list[a] + 1][b] = i

\* A cloud with a pair at a distance equal to the radius, a pair farther
\* apart, and a point with two neighbours listed in ascending order.
C11_Witness ==
    /\ selected
    /\ radius > 0
    /\ \E i, j \in 0..(Len(pc.points) - 1) :
          /\ i # j
          /\ SqDist(pc.points[i + 1], pc.points[j + 1]) = radius * radius
          /\ \E a \in 1..Len(neighbors[i + 1]) : neighbors[i + 1][a] = j
    /\ \E i, j \in 0..(Len(pc.points) - 1) :
          /\ SqDist(pc.points[i + 1], pc.points[j + 1]) > radius * radius
          /\ \A a \in 1..Len(neighbors[i + 1]) : neighbors[i + 1][a] # j
    /\ \E i \in 1..Len(neighbors) : Len(neighbors[i]) >= 2

====
